---- MODULE Spec2Model ----
(***************************************************************************)
(* Model of plot/compare_benchmarks.py: the loader, the thread-count       *)
(* extraction, the per-algorithm renderers, the join of the comparison     *)
(* table and the orchestration in main.                                    *)
(*                                                                         *)
(* Python strings are sequences of one-character strings, so that lower(), *)
(* replace(), the glob pattern and the regular expression are computed     *)
(* character by character.  Times and memory sizes are whole numbers of    *)
(* ms / MB; a quotient is the exact fraction [num, den] in lowest terms,   *)
(* with den = 0 for the values a float division by zero gives (1/0 is inf, *)
(* 0/0 is nan).                                                            *)
(***************************************************************************)
EXTENDS Integers, Sequences, FiniteSets, TLC

VARIABLES
    results_dir,    \* the directory main hands to load_benchmark_data
    dir_files,      \* names of the files in that directory
    pc,             \* position in main
    run,            \* 1 for the first run, 2 for the re-run on the same inputs
    exit_status,    \* -1 while running, else the process exit status
    julia_df, rust_df,          \* the loaded data frames (sequences of rows)
    julia_file, rust_file,      \* the paths the loader returned
    julia_threads, rust_threads,
    i,              \* index of the loop over the algorithm list
    algorithm,      \* the algorithm argument of the latest renderer call
    julia_data, rust_data,      \* the filtered subsets of the latest table step
    merged,         \* the merged frame of the latest table call
    table_data,     \* the display copy of the latest table call
    written,        \* the artifacts saved in this run, in order
    first_run       \* what the first run selected and wrote

vars == <<results_dir, dir_files, pc, run, exit_status, julia_df, rust_df,
          julia_file, rust_file, julia_threads, rust_threads, i, algorithm,
          julia_data, rust_data, merged, table_data, written, first_run>>

-----------------------------------------------------------------------------
(* Strings of the program *)

Iterative == <<"I","t","e","r","a","t","i","v","e">>
DivideConquer == <<"D","i","v","i","d","e","-","C","o","n","q","u","e","r">>
Strassen == <<"S","t","r","a","s","s","e","n">>
JuliaBuiltin == <<"J","u","l","i","a","-","B","u","i","l","t","i","n">>
RESULTS_DIR == <<".",".","/","r","e","s","u","l","t","s","/","d","a","t","a">>
OUTPUT_DIR == <<".",".","/","r","e","s","u","l","t","s","/","p","l","o","t","s","/">>
Unknown == <<"u","n","k","n","o","w","n">>
JuliaPrefix == <<"j","u","l","i","a","_","b","e","n","c","h","m","a","r","k","_">>
RustPrefix == <<"r","u","s","t","_","b","e","n","c","h","m","a","r","k","_">>
CsvSuffix == <<".","c","s","v">>
ComparisonSuffix == <<"_","c","o","m","p","a","r","i","s","o","n",".","p","n","g">>
MemorySuffix == <<"_","m","e","m","o","r","y",".","p","n","g">>
TableSuffix == <<"_","t","a","b","l","e",".","p","n","g">>
AllComparison == <<"a","l","l","_","a","l","g","o","r","i","t","h","m","s","_","c","o","m","p","a","r","i","s","o","n",".","p","n","g">>
AllMemory == <<"a","l","l","_","a","l","g","o","r","i","t","h","m","s","_","m","e","m","o","r","y",".","p","n","g">>

UpperChars == <<"A","B","C","D","E","F","G","H","I","J","K","L","M","N","O","P","Q","R","S","T","U","V","W","X","Y","Z">>
LowerChars == <<"a","b","c","d","e","f","g","h","i","j","k","l","m","n","o","p","q","r","s","t","u","v","w","x","y","z">>
DigitChars == <<"0","1","2","3","4","5","6","7","8","9">>

Range(s) == {s[k] : k \in DOMAIN s}

IsDigit(c) == c \in Range(DigitChars)

\* str.lower(), one character
LowerChar(c) ==
    IF \E k \in DOMAIN UpperChars : UpperChars[k] = c
    THEN LowerChars[CHOOSE k \in DOMAIN UpperChars : UpperChars[k] = c]
    ELSE c

\* str.lower()
StrLower(s) == [k \in DOMAIN s |-> LowerChar(s[k])]

\* str.replace(old, new) for one-character old and new
StrReplace(s, old, new) == [k \in DOMAIN s |-> IF s[k] = old THEN new ELSE s[k]]

\* os.path.join(a, b) for a non-empty a and a relative b
PathJoin(a, b) == IF a[Len(a)] = "/" THEN a \o b ELSE a \o <<"/">> \o b

StartsWith(s, p) == Len(s) >= Len(p) /\ SubSeq(s, 1, Len(p)) = p
EndsWith(s, p) == Len(s) >= Len(p) /\ SubSeq(s, Len(s) - Len(p) + 1, Len(s)) = p

\* fnmatch of a name against <prefix>*<suffix>, with the suffix left unchecked
GlobMatchPrefixOnly(name, prefix, suffix) == StartsWith(name, prefix)

\* fnmatch of a name against <prefix>*<suffix>
GlobMatch(name, prefix, suffix) ==
    /\ Len(name) >= Len(prefix) + Len(suffix)
    /\ StartsWith(name, prefix)
    /\ EndsWith(name, suffix)

RECURSIVE IntToStr(_)
\* str(n) for n >= 0
IntToStr(n) ==
    IF n < 10 THEN <<DigitChars[n + 1]>>
    ELSE IntToStr(n \div 10) \o <<DigitChars[(n % 10) + 1]>>

-----------------------------------------------------------------------------
(* extract_thread_count *)

RECURSIVE DigitRun(_, _)
\* length of the longest run of digits of s that starts at position p
DigitRun(s, p) ==
    IF p <= Len(s) /\ IsDigit(s[p]) THEN 1 + DigitRun(s, p + 1) ELSE 0

\* the pattern _(\d+)t_ matches s at position p
ThreadMatchAt(s, p) ==
    LET d == DigitRun(s, p + 1) IN
    /\ s[p] = "_"
    /\ d >= 1
    /\ p + d + 2 <= Len(s)
    /\ s[p + d + 1] = "t"
    /\ s[p + d + 2] = "_"

\* re.search(r'_(\d+)t_', filename): group(1) of the leftmost match
extract_thread_count(filename) ==
    LET hits == {p \in DOMAIN filename : ThreadMatchAt(filename, p)} IN
    IF hits = {} THEN Unknown
    ELSE LET p == CHOOSE q \in hits : \A r \in hits : q <= r
         IN  SubSeq(filename, p + 1, p + DigitRun(filename, p + 1))

-----------------------------------------------------------------------------
(* Output files of the renderers *)

\* create_algorithm_time_plot: output_file
TimePlotFile(alg, output_dir) ==
    PathJoin(output_dir, StrReplace(StrLower(alg), "-", "_") \o ComparisonSuffix)

\* create_algorithm_memory_plot: output_file
MemoryPlotFile(alg, output_dir) ==
    PathJoin(output_dir, StrReplace(StrLower(alg), "-", "_") \o MemorySuffix)

\* create_algorithm_comparison_table: output_file
TableFile(alg, output_dir) ==
    PathJoin(output_dir, StrReplace(StrLower(alg), "-", "_") \o TableSuffix)

\* create_combined_time_plot: output_file
CombinedTimeFile(output_dir) == PathJoin(output_dir, AllComparison)

\* create_combined_memory_plot: output_file
CombinedMemoryFile(output_dir) == PathJoin(output_dir, AllMemory)

-----------------------------------------------------------------------------
(* Data frames: a frame is a sequence of rows *)

\* df[df['algorithm'] == alg]
FilterAlgorithm(df, alg) == SelectSeq(df, LAMBDA r : r.algorithm = alg)

\* df['language'] = lang
TagLanguage(df, lang) ==
    [k \in DOMAIN df |-> [algorithm |-> df[k].algorithm, size |-> df[k].size,
                          time_ms |-> df[k].time_ms, memory_mb |-> df[k].memory_mb,
                          language |-> lang]]

RECURSIVE Gcd(_, _)
Gcd(a, b) == IF b = 0 THEN a ELSE Gcd(b, a % b)

\* a / b on floats: the fraction in lowest terms; 1/0 is inf and 0/0 is nan
Divide(a, b) ==
    IF b = 0 THEN [num |-> IF a = 0 THEN 0 ELSE 1, den |-> 0]
    ELSE LET g == Gcd(a, b) IN [num |-> a \div g, den |-> b \div g]

\* Series.round(2) of a quotient: the nearest multiple of 1/100, ties to even
Round2(q) ==
    IF q.den = 0 THEN q
    ELSE LET n == 100 * q.num
             f == n \div q.den
             r == n % q.den
             k == IF 2 * r > q.den THEN f + 1
                  ELSE IF 2 * r < q.den THEN f
                  ELSE IF f % 2 = 0 THEN f ELSE f + 1
         IN  Divide(k, 100)

\* one row for every right row, whatever its size (a join without the key)
MatchRowsAnySize(l, rd) ==
    [k \in DOMAIN rd |->
        [size |-> l.size,
         time_ms_julia |-> l.time_ms, memory_mb_julia |-> l.memory_mb,
         time_ms_rust |-> rd[k].time_ms, memory_mb_rust |-> rd[k].memory_mb]]

RECURSIVE MatchRows(_, _)
\* the rows an inner join on size gives for one left row l, in right order
MatchRows(l, rd) ==
    IF rd = <<>> THEN <<>>
    ELSE (IF Head(rd).size = l.size
          THEN <<[size |-> l.size,
                  time_ms_julia |-> l.time_ms, memory_mb_julia |-> l.memory_mb,
                  time_ms_rust |-> Head(rd).time_ms,
                  memory_mb_rust |-> Head(rd).memory_mb]>>
          ELSE <<>>) \o MatchRows(l, Tail(rd))

RECURSIVE Merge(_, _)
\* pd.merge(julia_data[[...]], rust_data[[...]], on='size',
\*          suffixes=('_julia', '_rust')): the default inner join
Merge(jd, rd) ==
    IF jd = <<>> THEN <<>> ELSE MatchRows(Head(jd), rd) \o Merge(Tail(jd), rd)

\* the quotient taken the other way round, Rust time over Julia time
SpeedupSwapped(row) == Divide(row.time_ms_rust, row.time_ms_julia)

\* merged['speedup'] = merged['time_ms_julia'] / merged['time_ms_rust']
Speedup(row) == Divide(row.time_ms_julia, row.time_ms_rust)

\* merged['memory_ratio'] = merged['memory_mb_julia'] / merged['memory_mb_rust']
MemoryRatio(row) == Divide(row.memory_mb_julia, row.memory_mb_rust)

\* merged after the two derived columns are added
WithRatios(m) ==
    [k \in DOMAIN m |->
        [size |-> m[k].size,
         time_ms_julia |-> m[k].time_ms_julia, memory_mb_julia |-> m[k].memory_mb_julia,
         time_ms_rust |-> m[k].time_ms_rust, memory_mb_rust |-> m[k].memory_mb_rust,
         speedup |-> Speedup(m[k]), memory_ratio |-> MemoryRatio(m[k])]]

\* table_data: the display copy, every number rounded to 2 decimals
TableData(m) ==
    [k \in DOMAIN m |->
        [matrix_size |-> IntToStr(m[k].size),
         julia_time |-> Round2(Divide(m[k].time_ms_julia, 1)),
         rust_time |-> Round2(Divide(m[k].time_ms_rust, 1)),
         speedup |-> Round2(m[k].speedup),
         julia_memory |-> Round2(Divide(m[k].memory_mb_julia, 1)),
         rust_memory |-> Round2(Divide(m[k].memory_mb_rust, 1)),
         memory_ratio |-> Round2(m[k].memory_ratio)]]

\* create_algorithm_comparison_table(alg, jd, rd, output_dir)
create_algorithm_comparison_table(alg, jd, rd, output_dir) ==
    LET m == WithRatios(Merge(jd, rd)) IN
    [merged |-> m, table_data |-> TableData(m),
     output_file |-> TableFile(alg, output_dir)]

\* the guard with `or` in place of `and`
HasEitherSide(jd, rd) == Len(jd) > 0 \/ Len(rd) > 0

\* the guard of create_comparison_tables
HasBothSides(jd, rd) == Len(jd) > 0 /\ Len(rd) > 0

\* the list with its last two algorithms exchanged
AlgorithmsReordered == <<Iterative, Strassen, DivideConquer>>

\* the fixed algorithm list of create_individual_algorithm_plots
algorithms == <<Iterative, DivideConquer, Strassen>>

\* the fixed algorithm list of create_comparison_tables
table_algorithms == <<Iterative, DivideConquer, Strassen>>

-----------------------------------------------------------------------------
(* The results directory *)

\* file names the directory may hold
JuliaCsv1 == <<"j","u","l","i","a","_","b","e","n","c","h","m","a","r","k","_","8","t","_","1",".","c","s","v">>
JuliaCsv2 == <<"j","u","l","i","a","_","b","e","n","c","h","m","a","r","k","_","2",".","c","s","v">>
RustCsv1 == <<"r","u","s","t","_","b","e","n","c","h","m","a","r","k","_","4","t","_","1",".","c","s","v">>
RustCsv2 == <<"r","u","s","t","_","b","e","n","c","h","m","a","r","k","_","1","2","t","_","2",".","c","s","v">>
JuliaTxt == <<"j","u","l","i","a","_","b","e","n","c","h","m","a","r","k","_","8","t","_","1",".","t","x","t">>
FileNames == {JuliaCsv1, JuliaCsv2, RustCsv1, RustCsv2, JuliaTxt}

\* a directory whose own name has a _<digits>t_ segment
ThreadedDir == <<".",".","/","r","u","n","s","_","2","t","_","/","d","a","t","a">>
ResultsDirs == {RESULTS_DIR, ThreadedDir}

Row(alg, size, time, mem) ==
    [algorithm |-> alg, size |-> size, time_ms |-> time, memory_mb |-> mem]

\* pd.read_csv(path): the rows of each file
ReadCsv(name) ==
    CASE name = JuliaCsv1 ->
           <<Row(Iterative, 64, 10, 5), Row(Iterative, 128, 80, 20),
             Row(DivideConquer, 64, 7, 6), Row(Strassen, 64, 9, 8),
             Row(JuliaBuiltin, 64, 1, 2)>>
      [] name = JuliaCsv2 ->
           <<Row(Iterative, 64, 11, 5), Row(JuliaBuiltin, 64, 1, 2)>>
      [] name = RustCsv1 ->
           <<Row(Iterative, 64, 2, 1), Row(DivideConquer, 64, 3, 2),
             Row(Strassen, 128, 30, 9)>>
      [] name = RustCsv2 ->
           <<Row(Strassen, 64, 4, 3)>>
      [] OTHER ->
           <<Row(Iterative, 64, 1, 1)>>

\* the names of `files` that glob.glob(os.path.join(dir, prefix + "*.csv")) finds
Glob(files, prefix) == {n \in files : GlobMatch(n, prefix, CsvSuffix)}

\* the orders in which a directory listing may return the names of S
Listings(S) ==
    {l \in [1..Cardinality(S) -> S] : \A a, b \in 1..Cardinality(S) : a # b => l[a] # l[b]}

\* the test of line 22: not julia_files or not rust_files
NoBenchmarkFiles(julia_files, rust_files) == julia_files = <<>> \/ rust_files = <<>>

NoRun == [julia_file |-> <<>>, rust_file |-> <<>>, artifacts |-> <<>>, exit_status |-> -1]

-----------------------------------------------------------------------------
(* main *)

Init ==
    /\ results_dir \in ResultsDirs
    /\ dir_files \in SUBSET FileNames
    /\ pc = "start"
    /\ run = 1
    /\ exit_status = -1
    /\ julia_df = <<>> /\ rust_df = <<>>
    /\ julia_file = <<>> /\ rust_file = <<>>
    /\ julia_threads = <<>> /\ rust_threads = <<>>
    /\ i = 0
    /\ algorithm = <<>>
    /\ julia_data = <<>> /\ rust_data = <<>>
    /\ merged = <<>> /\ table_data = <<>>
    /\ written = <<>>
    /\ first_run = NoRun

\* load_benchmark_data, lines 22-24: a pattern without a file ends the process
LoadMissing ==
    /\ pc = "start"
    /\ \E julia_files \in Listings(Glob(dir_files, JuliaPrefix)),
          rust_files \in Listings(Glob(dir_files, RustPrefix)) :
          NoBenchmarkFiles(julia_files, rust_files)
    /\ pc' = "exited"
    /\ exit_status' = 1
    /\ UNCHANGED <<results_dir, dir_files, run, julia_df, rust_df, julia_file,
                   rust_file, julia_threads, rust_threads, i, algorithm,
                   julia_data, rust_data, merged, table_data, written, first_run>>

\* load_benchmark_data, lines 26-32: the first name of each listing is read
LoadData ==
    /\ pc = "start"
    /\ \E julia_files \in Listings(Glob(dir_files, JuliaPrefix)),
          rust_files \in Listings(Glob(dir_files, RustPrefix)) :
          /\ ~NoBenchmarkFiles(julia_files, rust_files)
          /\ julia_df' = TagLanguage(ReadCsv(julia_files[1]), "Julia")
          /\ rust_df' = TagLanguage(ReadCsv(rust_files[1]), "Rust")
          /\ julia_file' = PathJoin(results_dir, julia_files[1])
          /\ rust_file' = PathJoin(results_dir, rust_files[1])
    /\ pc' = "loaded"
    /\ UNCHANGED <<results_dir, dir_files, run, exit_status, julia_threads,
                   rust_threads, i, algorithm, julia_data, rust_data, merged,
                   table_data, written, first_run>>

\* main, lines 340-341
ExtractThreads ==
    /\ pc = "loaded"
    /\ julia_threads' = extract_thread_count(julia_file)
    /\ rust_threads' = extract_thread_count(rust_file)
    /\ i' = 1
    /\ pc' = "time_plot"
    /\ UNCHANGED <<results_dir, dir_files, run, exit_status, julia_df, rust_df,
                   julia_file, rust_file, algorithm, julia_data, rust_data,
                   merged, table_data, written, first_run>>

\* create_individual_algorithm_plots, line 139
TimePlot ==
    /\ pc = "time_plot"
    /\ algorithm' = algorithms[i]
    /\ written' = Append(written, TimePlotFile(algorithms[i], OUTPUT_DIR))
    /\ pc' = "memory_plot"
    /\ UNCHANGED <<results_dir, dir_files, run, exit_status, julia_df, rust_df,
                   julia_file, rust_file, julia_threads, rust_threads, i,
                   julia_data, rust_data, merged, table_data, first_run>>

\* create_individual_algorithm_plots, line 140, and the step of its loop
MemoryPlot ==
    /\ pc = "memory_plot"
    /\ written' = Append(written, MemoryPlotFile(algorithm, OUTPUT_DIR))
    /\ IF i < Len(algorithms)
       THEN i' = i + 1 /\ pc' = "time_plot"
       ELSE i' = 0 /\ pc' = "combined_time"
    /\ UNCHANGED <<results_dir, dir_files, run, exit_status, julia_df, rust_df,
                   julia_file, rust_file, julia_threads, rust_threads, algorithm,
                   julia_data, rust_data, merged, table_data, first_run>>

\* create_combined_time_plot
CombinedTimePlot ==
    /\ pc = "combined_time"
    /\ written' = Append(written, CombinedTimeFile(OUTPUT_DIR))
    /\ pc' = "combined_memory"
    /\ UNCHANGED <<results_dir, dir_files, run, exit_status, julia_df, rust_df,
                   julia_file, rust_file, julia_threads, rust_threads, i, algorithm,
                   julia_data, rust_data, merged, table_data, first_run>>

\* create_combined_memory_plot
CombinedMemoryPlot ==
    /\ pc = "combined_memory"
    /\ written' = Append(written, CombinedMemoryFile(OUTPUT_DIR))
    /\ i' = 1
    /\ pc' = "tables"
    /\ UNCHANGED <<results_dir, dir_files, run, exit_status, julia_df, rust_df,
                   julia_file, rust_file, julia_threads, rust_threads, algorithm,
                   julia_data, rust_data, merged, table_data, first_run>>

\* create_comparison_tables, one pass of the loop with the table created
TableStep ==
    /\ pc = "tables"
    /\ i <= Len(table_algorithms)
    /\ LET alg == table_algorithms[i]
           jd == FilterAlgorithm(julia_df, alg)
           rd == FilterAlgorithm(rust_df, alg)
           t == create_algorithm_comparison_table(alg, jd, rd, OUTPUT_DIR)
       IN  /\ HasBothSides(jd, rd)
           /\ algorithm' = alg
           /\ julia_data' = jd
           /\ rust_data' = rd
           /\ merged' = t.merged
           /\ table_data' = t.table_data
           /\ written' = Append(written, t.output_file)
    /\ i' = i + 1
    /\ UNCHANGED <<results_dir, dir_files, pc, run, exit_status, julia_df, rust_df,
                   julia_file, rust_file, julia_threads, rust_threads, first_run>>

\* create_comparison_tables, one pass of the loop with the algorithm skipped
TableSkip ==
    /\ pc = "tables"
    /\ i <= Len(table_algorithms)
    /\ LET alg == table_algorithms[i]
           jd == FilterAlgorithm(julia_df, alg)
           rd == FilterAlgorithm(rust_df, alg)
       IN  /\ ~HasBothSides(jd, rd)
           /\ algorithm' = alg
           /\ julia_data' = jd
           /\ rust_data' = rd
    /\ i' = i + 1
    /\ UNCHANGED <<results_dir, dir_files, pc, run, exit_status, julia_df, rust_df,
                   julia_file, rust_file, julia_threads, rust_threads, merged,
                   table_data, written, first_run>>

\* main, line 351, and the normal end of the process
Finish ==
    /\ pc = "tables"
    /\ i > Len(table_algorithms)
    /\ pc' = "done"
    /\ exit_status' = 0
    /\ UNCHANGED <<results_dir, dir_files, run, julia_df, rust_df, julia_file,
                   rust_file, julia_threads, rust_threads, i, algorithm,
                   julia_data, rust_data, merged, table_data, written, first_run>>

\* the script is started again on the same directory, the output directory emptied
Rerun ==
    /\ pc \in {"done", "exited"}
    /\ run = 1
    /\ first_run' = [julia_file |-> julia_file, rust_file |-> rust_file,
                     artifacts |-> written, exit_status |-> exit_status]
    /\ run' = 2
    /\ pc' = "start"
    /\ exit_status' = -1
    /\ julia_df' = <<>> /\ rust_df' = <<>>
    /\ julia_file' = <<>> /\ rust_file' = <<>>
    /\ julia_threads' = <<>> /\ rust_threads' = <<>>
    /\ i' = 0
    /\ algorithm' = <<>>
    /\ julia_data' = <<>> /\ rust_data' = <<>>
    /\ merged' = <<>> /\ table_data' = <<>>
    /\ written' = <<>>
    /\ UNCHANGED <<results_dir, dir_files>>

Next ==
    \/ LoadMissing
    \/ LoadData
    \/ ExtractThreads
    \/ TimePlot
    \/ MemoryPlot
    \/ CombinedTimePlot
    \/ CombinedMemoryPlot
    \/ TableStep
    \/ TableSkip
    \/ Finish
    \/ Rerun

Spec == Init /\ [][Next]_vars

-----------------------------------------------------------------------------
(* create_comparison_tables on arbitrary data frames *)

MaxRows == 3

Sizes == {64, 128}
JuliaTimes == {1, 2}
RustTimes == {0, 3}
JuliaMemories == {5}
RustMemories == {2}

\* the rows a Julia benchmark file may hold
JuliaRows ==
    [algorithm : {Iterative, DivideConquer, Strassen, JuliaBuiltin}, size : Sizes,
     time_ms : JuliaTimes, memory_mb : JuliaMemories, language : {"Julia"}]

\* the rows a Rust benchmark file may hold
RustRows ==
    [algorithm : {Iterative, DivideConquer, Strassen}, size : Sizes,
     time_ms : RustTimes, memory_mb : RustMemories, language : {"Rust"}]

\* the artifacts main has written when it calls create_comparison_tables
PlotsWritten ==
    <<TimePlotFile(algorithms[1], OUTPUT_DIR), MemoryPlotFile(algorithms[1], OUTPUT_DIR),
      TimePlotFile(algorithms[2], OUTPUT_DIR), MemoryPlotFile(algorithms[2], OUTPUT_DIR),
      TimePlotFile(algorithms[3], OUTPUT_DIR), MemoryPlotFile(algorithms[3], OUTPUT_DIR),
      CombinedTimeFile(OUTPUT_DIR), CombinedMemoryFile(OUTPUT_DIR)>>

\* main at line 349, the two files holding any rows within the bounds, or the
\* rows of ReadCsv
InitTables ==
    /\ results_dir = RESULTS_DIR
    /\ dir_files = {JuliaCsv1, RustCsv1}
    /\ pc = "tables"
    /\ run = 1
    /\ exit_status = -1
    /\ \/ \E nj \in 0..MaxRows : \E nr \in 0..(MaxRows - nj) :
             /\ julia_df \in [1..nj -> JuliaRows]
             /\ rust_df \in [1..nr -> RustRows]
       \/ /\ julia_df = TagLanguage(ReadCsv(JuliaCsv1), "Julia")
          /\ rust_df = TagLanguage(ReadCsv(RustCsv1), "Rust")
    /\ julia_file = PathJoin(RESULTS_DIR, JuliaCsv1)
    /\ rust_file = PathJoin(RESULTS_DIR, RustCsv1)
    /\ julia_threads = extract_thread_count(PathJoin(RESULTS_DIR, JuliaCsv1))
    /\ rust_threads = extract_thread_count(PathJoin(RESULTS_DIR, RustCsv1))
    /\ i = 1
    /\ algorithm = algorithms[Len(algorithms)]
    /\ julia_data = <<>> /\ rust_data = <<>>
    /\ merged = <<>> /\ table_data = <<>>
    /\ written = PlotsWritten
    /\ first_run = NoRun

NextTables ==
    \/ TableStep
    \/ TableSkip
    \/ Finish

SpecTables == InitTables /\ [][NextTables]_vars

-----------------------------------------------------------------------------
(* The per-algorithm renderers called with any algorithm name *)

MaxNameLen == 3

NameChars == {"D", "c", "-", " "}

\* the algorithm names a caller may pass
RenderNames ==
    {Iterative, DivideConquer, Strassen}
        \cup UNION {[1..n -> NameChars] : n \in 1..MaxNameLen}

InitRender ==
    /\ results_dir = RESULTS_DIR
    /\ dir_files = {JuliaCsv1, RustCsv1}
    /\ pc = "render"
    /\ run = 1
    /\ exit_status = -1
    /\ julia_df = <<>> /\ rust_df = <<>>
    /\ julia_file = <<>> /\ rust_file = <<>>
    /\ julia_threads = Unknown /\ rust_threads = Unknown
    /\ i = 0
    /\ algorithm \in RenderNames
    /\ julia_data = TagLanguage(<<Row(algorithm, 64, 10, 5)>>, "Julia")
    /\ rust_data = TagLanguage(<<Row(algorithm, 64, 2, 1)>>, "Rust")
    /\ merged = <<>> /\ table_data = <<>>
    /\ written = <<>>
    /\ first_run = NoRun

\* create_algorithm_time_plot(algorithm, julia_data, rust_data, julia_threads, OUTPUT_DIR)
RenderTimePlot ==
    /\ pc = "render"
    /\ TimePlotFile(algorithm, OUTPUT_DIR) \notin Range(written)
    /\ written' = Append(written, TimePlotFile(algorithm, OUTPUT_DIR))
    /\ UNCHANGED <<results_dir, dir_files, pc, run, exit_status, julia_df, rust_df,
                   julia_file, rust_file, julia_threads, rust_threads, i, algorithm,
                   julia_data, rust_data, merged, table_data, first_run>>

\* create_algorithm_memory_plot(algorithm, julia_data, rust_data, OUTPUT_DIR)
RenderMemoryPlot ==
    /\ pc = "render"
    /\ MemoryPlotFile(algorithm, OUTPUT_DIR) \notin Range(written)
    /\ written' = Append(written, MemoryPlotFile(algorithm, OUTPUT_DIR))
    /\ UNCHANGED <<results_dir, dir_files, pc, run, exit_status, julia_df, rust_df,
                   julia_file, rust_file, julia_threads, rust_threads, i, algorithm,
                   julia_data, rust_data, merged, table_data, first_run>>

\* create_algorithm_comparison_table(algorithm, julia_data, rust_data, OUTPUT_DIR)
RenderTable ==
    /\ pc = "render"
    /\ TableFile(algorithm, OUTPUT_DIR) \notin Range(written)
    /\ LET t == create_algorithm_comparison_table(algorithm, julia_data, rust_data,
                                                  OUTPUT_DIR)
       IN  /\ merged' = t.merged
           /\ table_data' = t.table_data
           /\ written' = Append(written, t.output_file)
    /\ UNCHANGED <<results_dir, dir_files, pc, run, exit_status, julia_df, rust_df,
                   julia_file, rust_file, julia_threads, rust_threads, i, algorithm,
                   julia_data, rust_data, first_run>>

NextRender ==
    \/ RenderTimePlot
    \/ RenderMemoryPlot
    \/ RenderTable

SpecRender == InitRender /\ [][NextRender]_vars

-----------------------------------------------------------------------------
(* The properties *)

\* the file names the properties speak of, written out
IterativeSlug == <<"i","t","e","r","a","t","i","v","e">>
DivideConquerSlug == <<"d","i","v","i","d","e","_","c","o","n","q","u","e","r">>
StrassenSlug == <<"s","t","r","a","s","s","e","n">>
PlotsDir == <<".",".","/","r","e","s","u","l","t","s","/","p","l","o","t","s","/">>

FixedAlgorithms == {Iterative, DivideConquer, Strassen}

SlugOf(alg) ==
    CASE alg = Iterative -> IterativeSlug
      [] alg = DivideConquer -> DivideConquerSlug
      [] alg = Strassen -> StrassenSlug

\* the sizes that occur in df for algorithm alg
SizesOf(df, alg) == {df[k].size : k \in {n \in DOMAIN df : df[n].algorithm = alg}}

\* the rows of df for algorithm alg
RowsOf(df, alg) == {df[k] : k \in {n \in DOMAIN df : df[n].algorithm = alg}}

HasData(df, alg) == SizesOf(df, alg) # {}

\* the latest pass of the table loop created the table of `algorithm`
TableMade ==
    /\ pc \in {"tables", "done"}
    /\ i > 1
    /\ algorithm \in FixedAlgorithms
    /\ HasData(julia_df, algorithm)
    /\ HasData(rust_df, algorithm)

\* C1: the merge has as many rows as there are distinct sizes that occur both
\* in the Julia rows and in the Rust rows of the algorithm, repeated sizes
\* included.
C1_RowCountIsCommonSizes ==
    TableMade =>
        Len(merged) = Cardinality(SizesOf(julia_df, algorithm)
                                    \cap SizesOf(rust_df, algorithm))

\* a directory file matches <prefix>*.csv
HasCsv(prefix) ==
    \E n \in dir_files :
        /\ Len(n) >= Len(prefix) + 4
        /\ SubSeq(n, 1, Len(prefix)) = prefix
        /\ SubSeq(n, Len(n) - 3, Len(n)) = <<".", "c", "s", "v">>

MissingInput == ~HasCsv(JuliaPrefix) \/ ~HasCsv(RustPrefix)

\* C2: when the directory has no julia_benchmark_*.csv or no
\* rust_benchmark_*.csv, the run ends with a non-zero exit status before any
\* render step, with no artifact written.
C2_MissingInputAborts ==
    /\ (MissingInput /\ pc # "start") =>
          (pc = "exited" /\ exit_status > 0 /\ written = <<>>)
    /\ pc = "exited" => (MissingInput /\ exit_status > 0 /\ written = <<>>)

\* one pattern has a file and the other has none, and the run has ended
C2_Witness ==
    /\ pc = "exited"
    /\ HasCsv(JuliaPrefix)
    /\ ~HasCsv(RustPrefix)

\* the tables of the algorithms with rows on both sides, in the fixed order
RECURSIVE ExpectedTables(_)
ExpectedTables(algs) ==
    IF algs = <<>> THEN <<>>
    ELSE (IF HasData(julia_df, Head(algs)) /\ HasData(rust_df, Head(algs))
          THEN <<PlotsDir \o SlugOf(Head(algs)) \o TableSuffix>>
          ELSE <<>>) \o ExpectedTables(Tail(algs))

ExpectedArtifacts ==
    <<PlotsDir \o IterativeSlug \o ComparisonSuffix,
      PlotsDir \o IterativeSlug \o MemorySuffix,
      PlotsDir \o DivideConquerSlug \o ComparisonSuffix,
      PlotsDir \o DivideConquerSlug \o MemorySuffix,
      PlotsDir \o StrassenSlug \o ComparisonSuffix,
      PlotsDir \o StrassenSlug \o MemorySuffix,
      PlotsDir \o AllComparison,
      PlotsDir \o AllMemory>>
        \o ExpectedTables(<<Iterative, DivideConquer, Strassen>>)

\* C3: the artifacts are written in the order time plot, memory plot for
\* Iterative, Divide-Conquer, Strassen, then the combined time plot, the
\* combined memory plot, then the tables in the same algorithm order; a
\* finished run has written all of them.
C3_ArtifactOrder ==
    /\ Len(written) <= Len(ExpectedArtifacts)
    /\ written = SubSeq(ExpectedArtifacts, 1, Len(written))
    /\ pc = "done" => written = ExpectedArtifacts

\* a finished run that wrote all eleven artifacts
C3_Witness ==
    /\ pc = "done"
    /\ Len(written) = 11

C5_InnerJoinOnly ==
    TableMade =>
        /\ \A k \in DOMAIN merged :
              /\ merged[k].size \in SizesOf(julia_df, algorithm)
              /\ merged[k].size \in SizesOf(rust_df, algorithm)
              /\ \E j \in RowsOf(julia_df, algorithm) :
                    /\ j.size = merged[k].size
                    /\ j.time_ms = merged[k].time_ms_julia
                    /\ j.memory_mb = merged[k].memory_mb_julia
              /\ \E r \in RowsOf(rust_df, algorithm) :
                    /\ r.size = merged[k].size
                    /\ r.time_ms = merged[k].time_ms_rust
                    /\ r.memory_mb = merged[k].memory_mb_rust
        /\ \A sz \in SizesOf(julia_df, algorithm) \cup SizesOf(rust_df, algorithm) :
              sz \notin SizesOf(julia_df, algorithm) \cap SizesOf(rust_df, algorithm)
                  => \A k \in DOMAIN merged : merged[k].size # sz
        /\ algorithm # JuliaBuiltin
        /\ \A k \in DOMAIN julia_data : julia_data[k].algorithm # JuliaBuiltin
        /\ \A k \in DOMAIN rust_data : rust_data[k].algorithm # JuliaBuiltin

\* a table with a row, a size on one side only, and a Julia-Builtin row of a
\* size that is in the merge
C5_Witness ==
    /\ TableMade
    /\ merged # <<>>
    /\ SizesOf(julia_df, algorithm) # SizesOf(rust_df, algorithm)
    /\ \E k \in DOMAIN julia_df :
          /\ julia_df[k].algorithm = JuliaBuiltin
          /\ \E m \in DOMAIN merged : merged[m].size = julia_df[k].size

\* C6: in every merged row with a non-zero Rust time the speedup is the Julia
\* time over the Rust time of a Julia row and a Rust row of the algorithm and
\* size; the rounding to 2 decimals is in the display copy only.
C6_SpeedupIsJuliaOverRust ==
    TableMade =>
        /\ Len(table_data) = Len(merged)
        /\ \A k \in DOMAIN merged :
              merged[k].time_ms_rust # 0 =>
                  /\ merged[k].speedup.den # 0
                  /\ merged[k].speedup.num * merged[k].time_ms_rust
                        = merged[k].time_ms_julia * merged[k].speedup.den
                  /\ \E j \in RowsOf(julia_df, algorithm) :
                        j.size = merged[k].size /\ j.time_ms = merged[k].time_ms_julia
                  /\ \E r \in RowsOf(rust_df, algorithm) :
                        r.size = merged[k].size /\ r.time_ms = merged[k].time_ms_rust
                  /\ 100 % table_data[k].speedup.den = 0

\* a row whose speedup is not a multiple of 1/100: the display copy differs
C6_Witness ==
    /\ TableMade
    /\ \E k \in DOMAIN merged :
          /\ merged[k].time_ms_rust # 0
          /\ 100 % merged[k].speedup.den # 0
          /\ table_data[k].speedup # merged[k].speedup

\* the name lower-cased, every hyphen and every internal space an underscore
InternalSpaceSlug(name) ==
    [k \in DOMAIN name |->
        IF name[k] = "-" \/ (name[k] = " " /\ 1 < k /\ k < Len(name))
        THEN "_" ELSE LowerChar(name[k])]

\* C7: a per-algorithm renderer writes <slug>_<kind>.png, the slug being the
\* name lower-cased with every internal space and every hyphen replaced by an
\* underscore, the same slug in the three renderers.
C7_SlugNormalisesSpacesAndHyphens ==
    pc = "render" =>
        Range(written) \subseteq
            {PlotsDir \o InternalSpaceSlug(algorithm) \o kind :
                kind \in {ComparisonSuffix, MemorySuffix, TableSuffix}}

\* the part of a path after its last "/"
BaseName(path) ==
    LET cuts == {k \in DOMAIN path : path[k] = "/"} IN
    IF cuts = {} THEN path
    ELSE SubSeq(path, 1 + CHOOSE k \in cuts : \A c \in cuts : c <= k, Len(path))

\* the places and lengths of the _<digits>t_ segments of name
ThreadSegments(name) ==
    {pd \in (DOMAIN name) \X (DOMAIN name) :
        /\ pd[1] + pd[2] + 2 <= Len(name)
        /\ name[pd[1]] = "_"
        /\ \A k \in (pd[1] + 1)..(pd[1] + pd[2]) : name[k] \in Range(DigitChars)
        /\ name[pd[1] + pd[2] + 1] = "t"
        /\ name[pd[1] + pd[2] + 2] = "_"}

\* the digits of the first _<digits>t_ segment of name, or "unknown"
ThreadsOfName(name) ==
    IF ThreadSegments(name) = {} THEN Unknown
    ELSE LET pd == CHOOSE x \in ThreadSegments(name) :
                       \A y \in ThreadSegments(name) : x[1] <= y[1]
         IN  SubSeq(name, pd[1] + 1, pd[1] + pd[2])

\* C8: the thread counts main extracts are the digits of the _<digits>t_
\* segment of the benchmark file's name, or "unknown" when the name has none,
\* whatever the directory the file was found in.
C8_ThreadsFromFileNameOnly ==
    pc \in {"time_plot", "memory_plot", "combined_time", "combined_memory",
            "tables", "done"} =>
        /\ julia_threads = ThreadsOfName(BaseName(julia_file))
        /\ rust_threads = ThreadsOfName(BaseName(rust_file))

\* C9: two loads of the same directory select the same file for each
\* implementation, whatever order the listing returns the matches in.
C9_SelectionIsDeterministic ==
    (run = 2 /\ pc \notin {"start", "exited"}) =>
        /\ julia_file = first_run.julia_file
        /\ rust_file = first_run.rust_file

\* C10: two runs on the same inputs, each into an empty output directory,
\* write the same set of artifact file names, each name once per run.
C10_RerunWritesSameArtifacts ==
    (run = 2 /\ pc = "done") =>
        /\ Range(written) = Range(first_run.artifacts)
        /\ Cardinality(Range(written)) = Len(written)
        /\ Cardinality(Range(first_run.artifacts)) = Len(first_run.artifacts)

====
